---- MODULE Spec2Model ----
(***************************************************************************)
(* Model of the Immo-DataScraper crawl pipeline:                           *)
(*   utils/scrape_pipeline.py  fetch_html, dedupe_keep_order,              *)
(*                             collect_listing_urls, scrape_listings       *)
(*   sources/immowelt.py       ImmoWeltSource (link and field extraction)  *)
(*   sources/base.py           build_search_urls                           *)
(*   immo_module/client.py     ScrapeClient.collect_listing_urls           *)
(* Each component has its own specification over the shared variables:     *)
(*   SpecFetch   one call of fetch_html against a nondeterministic         *)
(*               transport                                                 *)
(*   SpecParse   one call of parse_listing, layer by layer                 *)
(*   SpecCollect one call of collect_listing_urls                          *)
(*   SpecScrape  one call of scrape_listings on a thread pool              *)
(*   SpecClient  one call of ScrapeClient.collect_listing_urls: the search *)
(*               URLs are built from the template, then collected          *)
(***************************************************************************)
EXTENDS Integers, Sequences, FiniteSets, TLC

VARIABLES
    retries,     \* fetch_html: the retries argument
    fetch,       \* fetch_html: loop position, last_exc and the returned pair
    outcomes,    \* fetch_html: what session.get did on each request so far
    sleeps,      \* fetch_html: the attempts after which time.sleep(backoff) ran
    html,        \* parse_listing: the html argument
    url,         \* parse_listing: the url argument
    hasJustHTML, \* whether the justhtml import succeeded (JustHTML is not None)
    record,      \* parse_listing: the record being built
    layer,       \* parse_listing: the next extraction layer to run
    search_urls, \* collect_listing_urls: the search_urls argument
    delay_s,     \* collect_listing_urls, scrape_listings: the delay_s argument
    pageIdx,     \* collect_listing_urls: position of the loop in search_urls
    listing_urls,\* collect_listing_urls: the URLs accumulated so far
    collectPc,   \* collect_listing_urls: "idle", "loop", "fetch" or "done"
    collected,   \* collect_listing_urls: the returned list
    collectLog,  \* collect_listing_urls: the fetches ended and delays slept
    scrape_urls, \* scrape_listings: the listing_urls argument
    max_workers, \* scrape_listings: the max_workers argument
    tasks,       \* scrape_listings: one _scrape(url) call per listing URL
    results,     \* scrape_listings: the results dict
    nextResult,  \* scrape_listings: the result executor.map yields next
    scrapePc,    \* scrape_listings: "idle", "running" or "done"
    search_url_template, \* ScrapeClient.collect_listing_urls: the template
    pages,       \* ScrapeClient.collect_listing_urls: the pages argument
    clientPc     \* ScrapeClient.collect_listing_urls: "idle", "build",
                 \* "collect", "raised" or "done"

fetchVars == <<retries, fetch, outcomes, sleeps>>

parseVars == <<html, url, hasJustHTML, record, layer>>

collectVars == <<search_urls, delay_s, pageIdx, listing_urls, collectPc,
                 collected, collectLog>>

scrapeVars == <<scrape_urls, max_workers, tasks, results, nextResult, scrapePc>>

clientVars == <<search_url_template, pages, clientPc>>

vars == <<retries, fetch, outcomes, sleeps, html, url, hasJustHTML, record, layer,
          search_urls, delay_s, pageIdx, listing_urls, collectPc, collected,
          collectLog, scrape_urls, max_workers, tasks, results, nextResult,
          scrapePc, search_url_template, pages, clientPc>>

(***************************************************************************)
(* Bounds                                                                  *)
(***************************************************************************)
MaxRetries == 2

\* The most search pages a collection is given.
MaxPages == 2

\* The most listing URLs a scrape is given.
MaxListings == 3

\* The largest thread pool.
MaxWorkers == 2

(***************************************************************************)
(* Python values                                                           *)
(***************************************************************************)
\* None
PyNone == "<None>"

\* An empty dict (a function with no keys).
EmptyDict == [k \in {} |-> ""]

\* dict.update: the keys of d overwrite those of r.
DictUpdate(r, d) == [k \in (DOMAIN r) \cup (DOMAIN d) |->
                        IF k \in DOMAIN d THEN d[k] ELSE r[k]]

\* dict.get(k) with the default None.
DictGet(r, k) == IF k \in DOMAIN r THEN r[k] ELSE PyNone

(***************************************************************************)
(* Response bodies.  A body is what BeautifulSoup makes of it: the JSON-LD *)
(* script blocks in document order, the text of the nodes carrying a       *)
(* data-testid (as bs4 and as JustHTML read them) and the meta/title tags. *)
(* `text` names the raw text; a body that is no markup at all (an error    *)
(* string) has only that.                                                  *)
(***************************************************************************)
PlainText(s) == [text |-> s, scripts |-> <<>>, dom |-> EmptyDict,
                 jh |-> EmptyDict, meta |-> EmptyDict, anchors |-> <<>>]

\* A document with markup.
Document(scripts, dom, jh, meta, anchors) ==
    [text |-> "<html>", scripts |-> scripts, dom |-> dom, jh |-> jh,
     meta |-> meta, anchors |-> anchors]

(***************************************************************************)
(* URLs: host, path segments and what follows the path (query/fragment).   *)
(* A relative reference has host "".                                       *)
(***************************************************************************)
Url(host, segs, tail) == [host |-> host, segs |-> segs, tail |-> tail]

RECURSIVE PathString(_)
PathString(segs) ==
    IF segs = <<>> THEN "" ELSE "/" \o Head(segs) \o PathString(Tail(segs))

\* The URL as the string the program handles.
UrlString(u) ==
    (IF u.host = "" THEN "" ELSE "https://" \o u.host)
        \o PathString(u.segs) \o u.tail

(***************************************************************************)
(* fetch_html                                                              *)
(***************************************************************************)
\* The retry set widened by a server-error status.
RetryStatusesWith500 == {403, 429, 500, 503}

\* The statuses retried while attempts remain: line 47.
RETRY_STATUSES == {403, 429, 503}

\* The statuses the modelled transport answers with.
TransportStatuses == {200, 404, 500, 403, 429, 503}

FetchBodies == {PlainText("body1"), PlainText("body2")}

ExcMessages == {"timeout", "refused"}

\* last_exc = None
NoExc == "<no exception>"

\* What one session.get(...) does: a response, or a requests.RequestException.
Response(s, b) == [exc |-> FALSE, status |-> s, text |-> b, msg |-> ""]

Raises(m) == [exc |-> TRUE, status |-> 0, text |-> PlainText(""), msg |-> m]

TransportOutcomes ==
    {Response(s, b) : s \in TransportStatuses, b \in FetchBodies}
        \cup {Raises(m) : m \in ExcMessages}

\* The locals of fetch_html on entry.
FetchStart == [attempt |-> 0, last_exc |-> NoExc, done |-> FALSE,
               status |-> 0, text |-> PlainText("")]

\* The retry test with the attempt bound dropped.
ShouldRetryStatusUnbounded(status, attempt, rt) == status \in RETRY_STATUSES

\* Whether the response is retried: line 47.
ShouldRetryStatus(status, attempt, rt) ==
    status \in RETRY_STATUSES /\ attempt < rt

\* Whether the exception is followed by a backoff and another attempt: line 54.
ShouldRetryException(attempt, rt) == attempt < rt

\* A backoff after every request while attempts remain.
AttemptSleepsAlways(f, rt, out) == f.attempt < rt

\* Whether the iteration ends in time.sleep(backoff): lines 47-49 and 54-56.
AttemptSleeps(f, rt, out) ==
    IF out.exc THEN ShouldRetryException(f.attempt, rt)
    ELSE ShouldRetryStatus(out.status, f.attempt, rt)

\* The return after the loop: line 58.
ExhaustedReturn(f) ==
    [f EXCEPT !.done = TRUE, !.status = 0,
              !.text = IF f.last_exc # NoExc THEN PlainText(f.last_exc)
                       ELSE PlainText("")]

\* The body of the loop for one attempt, given what session.get did:
\* lines 44-57.  `continue` and the end of the except clause both move on
\* to the next attempt.
LoopBody(f, rt, out) ==
    IF ~out.exc
    THEN IF ShouldRetryStatus(out.status, f.attempt, rt)
         THEN [f EXCEPT !.attempt = @ + 1]
         ELSE [f EXCEPT !.done = TRUE, !.status = out.status, !.text = out.text]
    ELSE [f EXCEPT !.attempt = @ + 1, !.last_exc = out.msg]

\* The loop over range(retries) instead of range(retries + 1).
FetchAttemptShortRange(f, rt, out) ==
    LET g == LoopBody(f, rt, out)
    IN  IF ~g.done /\ g.attempt >= rt THEN ExhaustedReturn(g) ELSE g

\* One iteration of `for attempt in range(retries + 1)`; when the range is
\* used up without a return, the return after the loop follows.
FetchAttempt(f, rt, out) ==
    LET g == LoopBody(f, rt, out)
    IN  IF ~g.done /\ g.attempt > rt THEN ExhaustedReturn(g) ELSE g

\* No call of fetch_html of its own is running.
IdleFetch ==
    /\ retries = 0
    /\ fetch = FetchStart
    /\ outcomes = <<>>
    /\ sleeps = <<>>

\* No call of parse_listing of its own is running.
IdleParse ==
    /\ html = PlainText("")
    /\ url = Url("", <<>>, "")
    /\ hasJustHTML = FALSE
    /\ record = EmptyDict
    /\ layer = "idle"

\* No call of collect_listing_urls is running.
IdleCollect ==
    /\ search_urls = <<>>
    /\ delay_s = 0
    /\ pageIdx = 0
    /\ listing_urls = <<>>
    /\ collectPc = "idle"
    /\ collected = <<>>
    /\ collectLog = <<>>

\* No call of scrape_listings is running.
IdleScrape ==
    /\ scrape_urls = <<>>
    /\ max_workers = 0
    /\ tasks = <<>>
    /\ results = EmptyDict
    /\ nextResult = 0
    /\ scrapePc = "idle"

\* No call of ScrapeClient.collect_listing_urls is running.
IdleClient ==
    /\ search_url_template = [given |-> FALSE, parts |-> <<>>]
    /\ pages = 0
    /\ clientPc = "idle"

InitFetch ==
    /\ retries \in 0..MaxRetries
    /\ fetch = FetchStart
    /\ outcomes = <<>>
    /\ sleeps = <<>>
    /\ IdleParse
    /\ IdleCollect
    /\ IdleScrape
    /\ IdleClient

\* The transport answers the request of the current attempt.
FetchRequest(out) ==
    /\ ~fetch.done
    /\ fetch' = FetchAttempt(fetch, retries, out)
    /\ outcomes' = Append(outcomes, out)
    /\ sleeps' = IF AttemptSleeps(fetch, retries, out)
                 THEN Append(sleeps, fetch.attempt) ELSE sleeps
    /\ UNCHANGED retries
    /\ UNCHANGED parseVars
    /\ UNCHANGED collectVars
    /\ UNCHANGED scrapeVars
    /\ UNCHANGED clientVars

NextFetch == \E out \in TransportOutcomes : FetchRequest(out)

SpecFetch == InitFetch /\ [][NextFetch]_vars

(***************************************************************************)
(* Claims about fetch_html (checked under SpecFetch)                       *)
(***************************************************************************)
\* The retry set as the claims state it.
ClaimRetrySet == {403, 429, 503}

IsRetryResponse(out) == ~out.exc /\ out.status \in ClaimRetrySet

IsFinalResponse(out) == ~out.exc /\ out.status \notin ClaimRetrySet

AllRetryResponses(n) == \A i \in 1..n : IsRetryResponse(outcomes[i])

AllRaise(n) == \A i \in 1..n : outcomes[i].exc

LastOutcome == outcomes[Len(outcomes)]

C2_RetryThenFinal ==
    LET n == Len(outcomes)
    IN  /\ (n > 0 /\ AllRetryResponses(n - 1) /\ IsFinalResponse(outcomes[n]))
              => /\ fetch.done
                 /\ n - 1 <= retries
                 /\ fetch.status = outcomes[n].status
                 /\ fetch.text = outcomes[n].text
                 /\ sleeps = [i \in 1..(n - 1) |-> i - 1]
        /\ (AllRetryResponses(n) /\ n <= retries)
              => ~fetch.done /\ Len(sleeps) = n

C2_Witness ==
    /\ retries = 2 /\ Len(outcomes) = 3 /\ fetch.done
    /\ outcomes[1].status = 429 /\ ~outcomes[1].exc
    /\ outcomes[2].status = 429 /\ ~outcomes[2].exc
    /\ outcomes[3].status = 200 /\ ~outcomes[3].exc
    /\ fetch.status = 200 /\ Len(sleeps) = 2

\* C3: when every attempt raises, fetch_html makes exactly retries+1
\* requests and then returns (0, e), e the non-empty string of the last
\* exception.
C3_AlwaysRaises ==
    LET n == Len(outcomes)
    IN  AllRaise(n)
          => /\ fetch.done <=> n = retries + 1
             /\ fetch.done => /\ fetch.status = 0
                              /\ fetch.text = PlainText(LastOutcome.msg)
                              /\ fetch.text.text # ""
                              /\ Len(sleeps) = retries

C3_Witness ==
    /\ retries = 1 /\ fetch.done /\ Len(outcomes) = 2 /\ AllRaise(2)
    /\ outcomes[1].msg # outcomes[2].msg
    /\ fetch.status = 0 /\ fetch.text = PlainText(outcomes[2].msg)

\* C4: a response whose status is outside {403, 429, 503} ends the call:
\* it is the last request, no sleep follows it, and the call has returned
\* that status and that body.
C4_FinalResponseReturnsAtOnce ==
    \A i \in 1..Len(outcomes) :
        IsFinalResponse(outcomes[i])
          => /\ i = Len(outcomes)
             /\ fetch.done
             /\ fetch.status = outcomes[i].status
             /\ fetch.text = outcomes[i].text
             /\ \A j \in 1..Len(sleeps) : sleeps[j] # i - 1

C4_Witness ==
    /\ retries = 2 /\ Len(outcomes) = 1 /\ fetch.done
    /\ ~outcomes[1].exc /\ outcomes[1].status = 500
    /\ fetch.status = 500 /\ sleeps = <<>>

(***************************************************************************)
(* ImmoWeltSource: listing links and listing ids                           *)
(***************************************************************************)
\* The path segments /expose/ and /immobilien/ match, whatever their case
\* (re.IGNORECASE).
ExposeWords == {"expose", "Expose", "EXPOSE"}

ImmobilienWords == {"immobilien", "Immobilien", "IMMOBILIEN"}

\* re.search(r"/<word>/([^/?#]+)"): the position of the first segment that
\* is the word and is followed by a non-empty segment; 0 when there is none.
SearchSegment(segs, words) ==
    LET hits == {i \in 1..(Len(segs) - 1) : segs[i] \in words /\ segs[i + 1] # ""}
    IN  IF hits = {} THEN 0 ELSE CHOOSE i \in hits : \A j \in hits : i <= j

_is_listing_link(href) ==
    \/ SearchSegment(href.segs, ExposeWords) # 0
    \/ SearchSegment(href.segs, ImmobilienWords) # 0

_extract_listing_id(u) ==
    LET e == SearchSegment(u.segs, ExposeWords)
        m == SearchSegment(u.segs, ImmobilienWords)
    IN  IF e # 0 THEN u.segs[e + 1]
        ELSE IF m # 0 THEN u.segs[m + 1]
        ELSE UrlString(u)

\* urllib.parse.urljoin for the references the model uses: an absolute URL
\* stands for itself, a path-absolute reference takes the host of the base,
\* a reference without a path takes the path of the base as well.
urljoin(base, href) ==
    IF href.host # "" THEN href
    ELSE IF href.segs = <<>> THEN Url(base.host, base.segs, href.tail)
    ELSE Url(base.host, href.segs, href.tail)

\* The href="" of an anchor, after strip().
EmptyHref == Url("", <<>>, "")

RECURSIVE ExtractLoop(_, _, _)
ExtractLoop(anchors, base, urls) ==
    IF anchors = <<>> THEN urls
    ELSE LET href == Head(anchors)
             full_url == urljoin(base, href)
         IN  IF href = EmptyHref \/ ~_is_listing_link(href)
                   \/ (\E i \in 1..Len(urls) : urls[i] = full_url)
             THEN ExtractLoop(Tail(anchors), base, urls)
             ELSE ExtractLoop(Tail(anchors), base, Append(urls, full_url))

extract_listing_urls(doc, base_url) == ExtractLoop(doc.anchors, base_url, <<>>)

(***************************************************************************)
(* ImmoWeltSource: the structured-data layer.  A JSON object is a function *)
(* from keys to scalars; a nested object has the value DictMark at its key *)
(* and its members at "key.member".                                        *)
(***************************************************************************)
DictMark == "<dict>"

\* An element of a JSON array that is no object.
ScalarItem == ("$scalar" :> "x")

IsDict(c) == "$scalar" \notin DOMAIN c

IsDictAt(data, k) == k \in DOMAIN data /\ data[k] = DictMark

\* A script block whose text json.loads rejects.
BadBlock == [kind |-> "bad", items |-> <<>>]

\* A script block without text.
EmptyBlock == [kind |-> "empty", items |-> <<>>]

\* A script block whose payload is one object.
DictBlock(o) == [kind |-> "dict", items |-> <<o>>]

\* A script block whose payload is an array.
ListBlock(items) == [kind |-> "list", items |-> items]

RECURSIVE JsonLdCandidates(_)
JsonLdCandidates(scripts) ==
    IF scripts = <<>> THEN <<>>
    ELSE (IF Head(scripts).kind \in {"dict", "list"} THEN Head(scripts).items
          ELSE <<>>) \o JsonLdCandidates(Tail(scripts))

\* _extract_json_ld returned None.
NoJsonLd == [found |-> FALSE, data |-> EmptyDict]

_extract_json_ld(scripts) ==
    LET candidates == JsonLdCandidates(scripts)
        hits == {i \in 1..Len(candidates) :
                    /\ IsDict(candidates[i])
                    /\ ("offers" \in DOMAIN candidates[i]
                            \/ "address" \in DOMAIN candidates[i])}
    IN  IF candidates = <<>> THEN NoJsonLd
        ELSE IF hits # {}
        THEN [found |-> TRUE,
              data |-> candidates[CHOOSE i \in hits : \A j \in hits : i <= j]]
        ELSE IF IsDict(candidates[1]) THEN [found |-> TRUE, data |-> candidates[1]]
        ELSE NoJsonLd

\* The keys of `pairs` (record field -> JSON key), each read with dict.get.
GetAll(data, pairs) == [f \in DOMAIN pairs |-> DictGet(data, pairs[f])]

_parse_json_ld(data) ==
    LET name == IF "name" \in DOMAIN data
                THEN ("title" :> data["name"]) ELSE EmptyDict
        desc == IF "description" \in DOMAIN data
                THEN ("description" :> data["description"]) ELSE EmptyDict
        offers == IF IsDictAt(data, "offers")
                  THEN GetAll(data, [price |-> "offers.price",
                                     price_currency |-> "offers.priceCurrency",
                                     availability |-> "offers.availability"])
                  ELSE EmptyDict
        address == IF IsDictAt(data, "address")
                   THEN GetAll(data, [street |-> "address.streetAddress",
                                      locality |-> "address.addressLocality",
                                      region |-> "address.addressRegion",
                                      postal_code |-> "address.postalCode",
                                      country |-> "address.addressCountry"])
                   ELSE EmptyDict
        geo == IF IsDictAt(data, "geo")
               THEN GetAll(data, [latitude |-> "geo.latitude",
                                  longitude |-> "geo.longitude"])
               ELSE EmptyDict
        rooms == IF "numberOfRooms" \in DOMAIN data
                 THEN ("rooms" :> data["numberOfRooms"]) ELSE EmptyDict
        floor_size == IF IsDictAt(data, "floorSize")
                      THEN GetAll(data, [area |-> "floorSize.value",
                                         area_unit |-> "floorSize.unitText"])
                      ELSE EmptyDict
    IN  name @@ desc @@ offers @@ address @@ geo @@ rooms @@ floor_size

\* `if json_ld: record.update(self._parse_json_ld(json_ld))`: an empty
\* object is falsy and gives no field either way.
JsonLdLayer(doc) ==
    LET json_ld == _extract_json_ld(doc.scripts)
    IN  IF json_ld.found /\ DOMAIN json_ld.data # {}
        THEN _parse_json_ld(json_ld.data) ELSE EmptyDict

(***************************************************************************)
(* ImmoWeltSource: the DOM-marker layer.  The text parsers are regular     *)
(* expressions; each is given by its result on the node texts the model    *)
(* uses ("EUR" stands for the euro sign, "m2" for the square-metre sign).  *)
(***************************************************************************)
PRICE == "cdp-price"

HARDFACTS == "cdp-hardfacts-keyfacts"

LOCATION == "cdp-location-address"

PROVIDER == "aviv.CDP.Contacting.ProviderSection.IntermediaryCard.Title.Link"

DESCRIPTION == "cdp-main-description-expandable-text"

DESCRIPTION_TITLE == "cdp-main-description-title"

CLASSIFIED_KEYS == "cdp-classified-keys"

\* r"([\d\.\s ]+)\s*EUR": the matched text and its digits as an integer.
_extract_euro_amount(text) ==
    CASE text = "450.000 EUR" -> [raw |-> "450.000 EUR", amount |-> "450000"]
      [] text = "450.000 EUR 3.200,50 EUR/m2"
            -> [raw |-> "450.000 EUR", amount |-> "450000"]
      [] text = "3.200,50 EUR/m2" -> [raw |-> "50 EUR", amount |-> "50"]
      [] OTHER -> [raw |-> PyNone, amount |-> PyNone]

\* r"([\d\.,]+)\s*EUR/m2", read with the comma as the decimal separator.
_parse_price_per_sqm(text) ==
    CASE text = "450.000 EUR 3.200,50 EUR/m2" -> "3200.5"
      [] text = "3.200,50 EUR/m2" -> "3200.5"
      [] OTHER -> PyNone

\* r"([\d\.,]+)\s*Zimmer"
_parse_rooms(text) ==
    CASE text = "3,5 Zimmer 85 m2" -> "3.5"
      [] OTHER -> PyNone

\* r"([\d\.,]+)\s*m2"
_parse_area(text) ==
    CASE text = "3,5 Zimmer 85 m2" -> "85.0"
      [] OTHER -> PyNone

\* r"^(.*?)\s*\((\d{4,6})\)": without a match the whole text is the locality.
_parse_location(text) ==
    CASE text = "Berlin-Mitte (10115)"
            -> [locality |-> "Berlin-Mitte", postal |-> "10115"]
      [] text = "(10115)" -> [locality |-> "", postal |-> "10115"]
      [] OTHER -> [locality |-> text, postal |-> PyNone]

\* rf"{label}\s*:\s*([^\s]+)"
_parse_labeled_value(text, label) ==
    CASE text = "Online-ID: X123 Referenznummer: Y456" /\ label = "Online-ID"
            -> "X123"
      [] text = "Online-ID: X123 Referenznummer: Y456" /\ label = "Referenznummer"
            -> "Y456"
      [] text = "Online-ID: X123" /\ label = "Online-ID" -> "X123"
      [] OTHER -> PyNone

\* A value in a boolean context, for the values a record holds.
Truthy(v) == v # PyNone /\ v # ""

\* str(record.get("description") or "")
CurrentDescription(rec) ==
    IF Truthy(DictGet(rec, "description")) THEN rec["description"] ELSE ""

\* The price block of the DOM layer: lines 129-139.
DomPrice(nodes, rec) ==
    IF PRICE \in DOMAIN nodes /\ "price" \notin DOMAIN rec
    THEN LET price_text == nodes[PRICE]
             euro == _extract_euro_amount(price_text)
             price_per_sqm == _parse_price_per_sqm(price_text)
         IN  (IF euro.amount # PyNone THEN ("price" :> euro.amount) ELSE EmptyDict)
             @@ (IF Truthy(euro.raw) THEN ("price_raw" :> euro.raw) ELSE EmptyDict)
             @@ (IF price_per_sqm # PyNone
                 THEN ("price_per_sqm" :> price_per_sqm) ELSE EmptyDict)
    ELSE EmptyDict

\* The key-facts block: lines 141-152.
DomHardfacts(nodes, rec) ==
    IF HARDFACTS \in DOMAIN nodes
    THEN LET hardfacts_text == nodes[HARDFACTS]
             rooms == _parse_rooms(hardfacts_text)
             area == _parse_area(hardfacts_text)
         IN  (IF "rooms" \notin DOMAIN rec /\ rooms # PyNone
              THEN ("rooms" :> rooms) ELSE EmptyDict)
             @@ (IF "area" \notin DOMAIN rec /\ area # PyNone
                 THEN ("area" :> area) @@ ("area_unit" :> "m2") ELSE EmptyDict)
    ELSE EmptyDict

\* The address block: lines 154-163.
DomLocation(nodes, rec) ==
    IF LOCATION \in DOMAIN nodes
    THEN LET location_text == nodes[LOCATION]
             loc == _parse_location(location_text)
             wanted == "locality" \notin DOMAIN rec \/ "postal_code" \notin DOMAIN rec
         IN  (IF wanted /\ Truthy(loc.locality) /\ "locality" \notin DOMAIN rec
              THEN ("locality" :> loc.locality) ELSE EmptyDict)
             @@ (IF wanted /\ Truthy(loc.postal) /\ "postal_code" \notin DOMAIN rec
                 THEN ("postal_code" :> loc.postal) ELSE EmptyDict)
             @@ ("location_raw" :> location_text)
    ELSE EmptyDict

\* The provider block: lines 165-169.
DomProvider(nodes, rec) ==
    IF PROVIDER \in DOMAIN nodes /\ "provider" \notin DOMAIN rec
    THEN ("provider" :> nodes[PROVIDER]) ELSE EmptyDict

\* The length test that lets any different text replace the description.
DescriptionReplacesAnyLength(desc_text, current) ==
    current = "" \/ Len(desc_text) >= Len(current)

\* `not current or len(desc_text) > len(current)`: line 176.
DescriptionReplaces(desc_text, current) ==
    current = "" \/ Len(desc_text) > Len(current)

\* The description block: lines 171-177.
DomDescription(nodes, rec) ==
    IF DESCRIPTION \in DOMAIN nodes /\ nodes[DESCRIPTION] # ""
          /\ DescriptionReplaces(nodes[DESCRIPTION], CurrentDescription(rec))
    THEN ("description" :> nodes[DESCRIPTION]) ELSE EmptyDict

\* The description-title block: lines 179-181.
DomDescriptionTitle(nodes, rec) ==
    IF DESCRIPTION_TITLE \in DOMAIN nodes /\ "description_title" \notin DOMAIN rec
    THEN ("description_title" :> nodes[DESCRIPTION_TITLE]) ELSE EmptyDict

\* The classified-keys block: lines 183-191.
DomClassifiedKeys(nodes, rec) ==
    IF CLASSIFIED_KEYS \in DOMAIN nodes
    THEN LET keys_text == nodes[CLASSIFIED_KEYS]
             online_id == _parse_labeled_value(keys_text, "Online-ID")
             reference == _parse_labeled_value(keys_text, "Referenznummer")
         IN  (IF Truthy(online_id) /\ "online_id" \notin DOMAIN rec
              THEN ("online_id" :> online_id) ELSE EmptyDict)
             @@ (IF Truthy(reference) /\ "reference_number" \notin DOMAIN rec
                 THEN ("reference_number" :> reference) ELSE EmptyDict)
    ELSE EmptyDict

\* The dict `parsed` both DOM readers build from the texts of the marked
\* nodes; every key is written at most once.
ParseDomNodes(nodes, rec) ==
    DomPrice(nodes, rec) @@ DomHardfacts(nodes, rec) @@ DomLocation(nodes, rec)
        @@ DomProvider(nodes, rec) @@ DomDescription(nodes, rec)
        @@ DomDescriptionTitle(nodes, rec) @@ DomClassifiedKeys(nodes, rec)

_parse_dom_bs4(doc, rec) == ParseDomNodes(doc.dom, rec)

_parse_dom_justhtml(doc, rec) == ParseDomNodes(doc.jh, rec)

(***************************************************************************)
(* ImmoWeltSource: the meta-tag layer and parse_listing                    *)
(***************************************************************************)
\* The stripped content of the tag, None when the tag or its content is
\* missing.
_extract_meta_content(meta, name) ==
    IF name \in DOMAIN meta /\ meta[name] # "" THEN meta[name] ELSE PyNone

\* dict.setdefault
SetDefault(rec, k, v) == IF k \in DOMAIN rec THEN rec ELSE DictUpdate(rec, k :> v)

\* og:title as a fallback, like the other two meta sources.
OgTitleSetDefault(rec, title) == SetDefault(rec, "title", title)

\* `record["title"] = title`: line 58.
OgTitleAssign(rec, title) == DictUpdate(rec, "title" :> title)

\* og:description replacing the description.
OgDescriptionAssign(rec, description) ==
    DictUpdate(rec, "description" :> description)

\* `record.setdefault("description", description)`: line 64.
OgDescriptionSetDefault(rec, description) ==
    SetDefault(rec, "description", description)

\* Lines 56-64.
MetaLayer(doc, rec) ==
    LET title == _extract_meta_content(doc.meta, "og:title")
        r1 == IF Truthy(title) THEN OgTitleAssign(rec, title) ELSE rec
        page_title == DictGet(doc.meta, "title")
        r2 == IF Truthy(page_title) THEN SetDefault(r1, "title", page_title) ELSE r1
        description == _extract_meta_content(doc.meta, "og:description")
    IN  IF Truthy(description) THEN OgDescriptionSetDefault(r2, description) ELSE r2

\* Lines 45-49.
NewRecord(u) ==
    [source |-> "immowelt", url |-> UrlString(u), id |-> _extract_listing_id(u)]

\* parse_listing as a whole.
parse_listing(doc, u, justhtml) ==
    LET r0 == NewRecord(u)
        r1 == DictUpdate(r0, JsonLdLayer(doc))
        r2 == DictUpdate(r1, _parse_dom_bs4(doc, r1))
        r3 == IF justhtml THEN DictUpdate(r2, _parse_dom_justhtml(doc, r2)) ELSE r2
    IN  MetaLayer(doc, r3)

(***************************************************************************)
(* The listing pages and listing URLs parse_listing is run on              *)
(***************************************************************************)
\* A listing object with name, description and an offer.
LdOffer ==
    ("name" :> "Haus A") @@ ("description" :> "Helle Wohnung")
        @@ ("offers" :> DictMark) @@ ("offers.price" :> "450000")
        @@ ("offers.priceCurrency" :> "EUR")

\* A listing object with address, geo, rooms and floor size, no description.
LdAddress ==
    ("name" :> "Haus B") @@ ("address" :> DictMark)
        @@ ("address.addressLocality" :> "Berlin") @@ ("address.postalCode" :> "10115")
        @@ ("geo" :> DictMark) @@ ("geo.latitude" :> "52.5") @@ ("geo.longitude" :> "13.4")
        @@ ("numberOfRooms" :> "3")
        @@ ("floorSize" :> DictMark) @@ ("floorSize.value" :> "85")
        @@ ("floorSize.unitText" :> "MTK")

\* A breadcrumb object: no offers, no address; its description is null.
LdBreadcrumb == ("@type" :> "BreadcrumbList") @@ ("description" :> PyNone)

\* An object whose offers member is not an object.
LdScalarOffers ==
    ("description" :> "Helle Wohnung") @@ ("offers" :> "auf Anfrage")

ScriptChoices ==
    { <<>>,
      <<DictBlock(LdOffer)>>,
      <<DictBlock(LdAddress)>>,
      <<BadBlock, DictBlock(LdBreadcrumb), DictBlock(LdOffer)>>,
      <<EmptyBlock, ListBlock(<<ScalarItem, LdScalarOffers>>)>>,
      <<DictBlock(LdBreadcrumb)>>,
      <<ListBlock(<<ScalarItem, LdBreadcrumb>>)>> }

DomChoices ==
    { EmptyDict,
      (PRICE :> "450.000 EUR 3.200,50 EUR/m2") @@ (HARDFACTS :> "3,5 Zimmer 85 m2")
          @@ (LOCATION :> "Berlin-Mitte (10115)") @@ (PROVIDER :> "Makler GmbH")
          @@ (DESCRIPTION :> "Hell") @@ (DESCRIPTION_TITLE :> "Objekt")
          @@ (CLASSIFIED_KEYS :> "Online-ID: X123 Referenznummer: Y456"),
      (PRICE :> "Preis auf Anfrage") @@ (HARDFACTS :> "Baujahr 1990")
          @@ (LOCATION :> "Somewhere Rural") @@ (DESCRIPTION :> "Ruhige Lage!!")
          @@ (CLASSIFIED_KEYS :> "Online-ID: X123"),
      (PRICE :> "3.200,50 EUR/m2") @@ (LOCATION :> "(10115)")
          @@ (DESCRIPTION :> "Helle Wohnung mit Balkon") }

\* What JustHTML reads from the same nodes: the same texts, or a description
\* whose whitespace it kept (to_text against get_text(" ", strip=True)).
JustHtmlViews(dom) ==
    {dom} \cup (IF DESCRIPTION \in DOMAIN dom
                THEN {DictUpdate(dom, DESCRIPTION :> (dom[DESCRIPTION] \o "  \n"))}
                ELSE {})

MetaChoices ==
    { EmptyDict,
      ("og:title" :> "OG Title") @@ ("title" :> "Page Title")
          @@ ("og:description" :> "OG description"),
      ("title" :> "Page Title"),
      ("og:title" :> "") @@ ("og:description" :> "OG description") }

ListingPages ==
    UNION {{Document(sc, dom, jh, meta, <<>>) :
                sc \in ScriptChoices, jh \in JustHtmlViews(dom), meta \in MetaChoices}
            : dom \in DomChoices}

HOST == "www.immowelt.de"

\* Listing URLs: two URLs of the same expose, an /immobilien/ URL and one
\* without a listing id.
ListingUrlPool ==
    << Url(HOST, <<"expose", "abc">>, ""),
       Url(HOST, <<"expose", "abc">>, "?ref=1"),
       Url(HOST, <<"immobilien", "haus-1">>, ""),
       Url(HOST, <<"objekt", "77">>, ""),
       Url(HOST, <<"Expose", "xyz">>, "#top") >>

(***************************************************************************)
(* SpecParse: one call of parse_listing, one layer per step                *)
(***************************************************************************)
InitParse ==
    /\ IdleFetch
    /\ IdleCollect
    /\ IdleScrape
    /\ IdleClient
    /\ html \in ListingPages
    /\ url \in {ListingUrlPool[1], ListingUrlPool[4]}
    /\ hasJustHTML \in BOOLEAN
    /\ record = EmptyDict
    /\ layer = "start"

\* Lines 44-49.
ParseStart ==
    /\ layer = "start"
    /\ record' = NewRecord(url)
    /\ layer' = "json_ld"
    /\ UNCHANGED <<html, url, hasJustHTML>>
    /\ UNCHANGED fetchVars
    /\ UNCHANGED collectVars
    /\ UNCHANGED scrapeVars
    /\ UNCHANGED clientVars

\* Lines 50-52.
ApplyJsonLd ==
    /\ layer = "json_ld"
    /\ record' = DictUpdate(record, JsonLdLayer(html))
    /\ layer' = "dom_bs4"
    /\ UNCHANGED <<html, url, hasJustHTML>>
    /\ UNCHANGED fetchVars
    /\ UNCHANGED collectVars
    /\ UNCHANGED scrapeVars
    /\ UNCHANGED clientVars

\* Line 53, and the test of line 54.
ApplyDomBs4 ==
    /\ layer = "dom_bs4"
    /\ record' = DictUpdate(record, _parse_dom_bs4(html, record))
    /\ layer' = IF hasJustHTML THEN "dom_justhtml" ELSE "meta"
    /\ UNCHANGED <<html, url, hasJustHTML>>
    /\ UNCHANGED fetchVars
    /\ UNCHANGED collectVars
    /\ UNCHANGED scrapeVars
    /\ UNCHANGED clientVars

\* Line 55.
ApplyDomJustHtml ==
    /\ layer = "dom_justhtml"
    /\ record' = DictUpdate(record, _parse_dom_justhtml(html, record))
    /\ layer' = "meta"
    /\ UNCHANGED <<html, url, hasJustHTML>>
    /\ UNCHANGED fetchVars
    /\ UNCHANGED collectVars
    /\ UNCHANGED scrapeVars
    /\ UNCHANGED clientVars

\* Lines 56-65.
ApplyMeta ==
    /\ layer = "meta"
    /\ record' = MetaLayer(html, record)
    /\ layer' = "done"
    /\ UNCHANGED <<html, url, hasJustHTML>>
    /\ UNCHANGED fetchVars
    /\ UNCHANGED collectVars
    /\ UNCHANGED scrapeVars
    /\ UNCHANGED clientVars

NextParse ==
    \/ ParseStart
    \/ ApplyJsonLd
    \/ ApplyDomBs4
    \/ ApplyDomJustHtml
    \/ ApplyMeta

SpecParse == InitParse /\ [][NextParse]_vars

(***************************************************************************)
(* Claims about parse_listing (checked under SpecParse)                    *)
(***************************************************************************)
\* The fields the structured-data layer wrote for the page.
JsonLdFields == JsonLdLayer(html)

AfterJsonLd == layer \in {"dom_bs4", "dom_justhtml", "meta", "done"}

\* C5: every field other than description that the JSON-LD layer has set
\* keeps the JSON-LD value through the DOM-marker and meta-tag layers.
C5_JsonLdFieldsKept ==
    AfterJsonLd =>
        \A f \in (DOMAIN JsonLdFields) \ {"description"} :
            f \in DOMAIN record /\ record[f] = JsonLdFields[f]

\* The length of a description held by the record; None has no text.
DescriptionLen(v) == IF v = PyNone THEN 0 ELSE Len(v)

\* The text of the description block as the running DOM reader sees it.
DomDescriptionText ==
    IF layer = "dom_bs4" THEN DictGet(html.dom, DESCRIPTION)
    ELSE DictGet(html.jh, DESCRIPTION)

\* C6: a description present in the record changes only in a DOM layer,
\* only to the text of the DOM description block and only when that text is
\* strictly longer; the meta-tag layer (og:description) never changes it.
C6_DescriptionOnlyReplacedByLonger ==
    [][ ("description" \in DOMAIN record
            /\ record'["description"] # record["description"])
          => /\ layer \in {"dom_bs4", "dom_justhtml"}
             /\ record'["description"] = DomDescriptionText
             /\ Len(record'["description"]) > DescriptionLen(record["description"])
      ]_vars

C6_Witness ==
    /\ layer = "done"
    /\ DictGet(JsonLdFields, "description") = "Helle Wohnung"
    /\ DictGet(html.meta, "og:description") = "OG description"
    /\ record["description"] = "Helle Wohnung mit Balkon"

\* The JSON objects among the elements the parsing blocks contribute, in
\* document order.
JsonObjects(scripts) ==
    SelectSeq(JsonLdCandidates(scripts), LAMBDA c : IsDict(c))

HasOffersOrAddress(o) == "offers" \in DOMAIN o \/ "address" \in DOMAIN o

\* The object the structured-data layer is to read: the first with an
\* offers or address key, else the first object at all.
FirstOffersOrAddressElseFirst(scripts) ==
    LET objects == JsonObjects(scripts)
        keyed == SelectSeq(objects, HasOffersOrAddress)
    IN  IF keyed # <<>> THEN [found |-> TRUE, data |-> keyed[1]]
        ELSE IF objects # <<>> THEN [found |-> TRUE, data |-> objects[1]]
        ELSE NoJsonLd

\* C14: the structured-data layer reads the first JSON object, in document
\* order over all parsing JSON-LD blocks, that has an offers or address
\* key, and the first JSON object found when none has one: the record it
\* leaves holds the fields of that object.
C14_FirstKeyedObjectElseFirstObject ==
    layer = "dom_bs4" =>
        LET chosen == FirstOffersOrAddressElseFirst(html.scripts)
        IN  /\ _extract_json_ld(html.scripts) = chosen
            /\ record = DictUpdate(NewRecord(url),
                                   IF chosen.found /\ DOMAIN chosen.data # {}
                                   THEN _parse_json_ld(chosen.data)
                                   ELSE EmptyDict)

\* _parse_dom_bs4 has run.
AfterDomBs4 == layer \in {"dom_justhtml", "meta", "done"}

\* C16: when the price block is there and its text has a per-area price,
\* the DOM-marker layer sets price_per_sqm (absent until then) to it,
\* whether or not the structured-data layer had set price; and likewise
\* price_raw to the amount text found in the block.
C16_PricePerSqmIndependentOfPrice ==
    (AfterDomBs4 /\ PRICE \in DOMAIN html.dom) =>
        LET price_text == html.dom[PRICE]
            raw_price == _extract_euro_amount(price_text).raw
            per_sqm == _parse_price_per_sqm(price_text)
        IN  /\ per_sqm # PyNone
                   => /\ "price_per_sqm" \in DOMAIN record
                      /\ record["price_per_sqm"] = per_sqm
            /\ Truthy(raw_price)
                   => /\ "price_raw" \in DOMAIN record
                      /\ record["price_raw"] = raw_price

(***************************************************************************)
(* dedupe_keep_order and collect_listing_urls                              *)
(***************************************************************************)
Range(seq) == {seq[i] : i \in 1..Len(seq)}

\* A deduplication that keeps the last occurrence of each value.
RECURSIVE DedupeKeepLast(_)
DedupeKeepLast(values) ==
    IF values = <<>> THEN <<>>
    ELSE IF Head(values) \in Range(Tail(values)) THEN DedupeKeepLast(Tail(values))
    ELSE <<Head(values)>> \o DedupeKeepLast(Tail(values))

RECURSIVE DedupeLoop(_, _, _)
DedupeLoop(values, seen, deduped) ==
    IF values = <<>> THEN deduped
    ELSE IF Head(values) \in seen THEN DedupeLoop(Tail(values), seen, deduped)
    ELSE DedupeLoop(Tail(values), seen \cup {Head(values)},
                    Append(deduped, Head(values)))

dedupe_keep_order(values) == DedupeLoop(values, {}, <<>>)

\* The search URLs of pages 1..n.
SearchUrls(n) == [i \in 1..n |-> Url(HOST, <<"suche">>, "?page=" \o ToString(i))]

\* Search result pages: their anchors, in document order.
SearchPages ==
    { Document(<<>>, EmptyDict, EmptyDict, EmptyDict,
               << Url("", <<"expose", "abc">>, ""), Url("", <<"about">>, ""),
                  Url("", <<"expose", "abc">>, ""),
                  Url("", <<"immobilien", "haus-1">>, "") >>),
      Document(<<>>, EmptyDict, EmptyDict, EmptyDict,
               << Url("", <<"immobilien", "haus-1">>, ""), EmptyHref,
                  Url("", <<"expose", "abc">>, "?ref=1"),
                  Url("other.example", <<"EXPOSE", "zzz">>, "") >>),
      Document(<<>>, EmptyDict, EmptyDict, EmptyDict,
               << Url("", <<"expose">>, ""), Url("", <<"objekt", "77">>, "") >>) }

\* What the transport does on a request for a search page.
CollectOutcomes ==
    {Response(st, b) : st \in {200, 404, 429}, b \in SearchPages}
        \cup {Raises("timeout")}

\* Any response at all counts as a page.
PageAcceptedAnyResponse(status) == status # 0

\* `if status != 200: continue`: line 83.
PageAccepted(status) == status = 200

\* An entry of collectLog.
FetchEvent(i, u, status, links) ==
    [kind |-> "fetch", page |-> i, url |-> u, status |-> status, links |-> links]

DelayEvent(i, u) ==
    [kind |-> "delay", page |-> i, url |-> u, status |-> 0, links |-> <<>>]

InitCollect ==
    /\ retries \in 0..MaxRetries
    /\ fetch = FetchStart
    /\ outcomes = <<>>
    /\ sleeps = <<>>
    /\ IdleParse
    /\ search_urls \in {SearchUrls(n) : n \in 0..MaxPages}
    /\ delay_s \in {0, 1}
    /\ pageIdx = 1
    /\ listing_urls = <<>>
    /\ collectPc = "loop"
    /\ collected = <<>>
    /\ collectLog = <<>>
    /\ IdleScrape
    /\ IdleClient

\* `for url in search_urls`: the call of fetch_html for the next page begins.
CollectNextPage ==
    /\ collectPc = "loop"
    /\ pageIdx <= Len(search_urls)
    /\ fetch' = FetchStart
    /\ collectPc' = "fetch"
    /\ UNCHANGED <<retries, outcomes, sleeps>>
    /\ UNCHANGED <<search_urls, delay_s, pageIdx, listing_urls, collected, collectLog>>
    /\ UNCHANGED parseVars
    /\ UNCHANGED scrapeVars
    /\ UNCHANGED clientVars

\* One attempt of the running fetch_html: line 82.
CollectFetchAttempt(out) ==
    /\ collectPc = "fetch"
    /\ ~fetch.done
    /\ fetch' = FetchAttempt(fetch, retries, out)
    /\ UNCHANGED <<retries, outcomes, sleeps>>
    /\ UNCHANGED collectVars
    /\ UNCHANGED parseVars
    /\ UNCHANGED scrapeVars
    /\ UNCHANGED clientVars

\* fetch_html has returned: lines 83-87.
CollectPage ==
    /\ collectPc = "fetch"
    /\ fetch.done
    /\ LET u == search_urls[pageIdx]
           links == extract_listing_urls(fetch.text, u)
           fetched == FetchEvent(pageIdx, u, fetch.status, links)
       IN  IF ~PageAccepted(fetch.status)
           THEN /\ listing_urls' = listing_urls
                /\ collectLog' = Append(collectLog, fetched)
           ELSE /\ listing_urls' = listing_urls \o links
                /\ collectLog' = IF delay_s # 0
                                 THEN collectLog \o <<fetched, DelayEvent(pageIdx, u)>>
                                 ELSE Append(collectLog, fetched)
    /\ pageIdx' = pageIdx + 1
    /\ collectPc' = "loop"
    /\ UNCHANGED <<search_urls, delay_s, collected>>
    /\ UNCHANGED fetchVars
    /\ UNCHANGED parseVars
    /\ UNCHANGED scrapeVars
    /\ UNCHANGED clientVars

\* `return dedupe_keep_order(listing_urls)`: line 88.
CollectReturn ==
    /\ collectPc = "loop"
    /\ pageIdx > Len(search_urls)
    /\ collected' = dedupe_keep_order(listing_urls)
    /\ collectPc' = "done"
    /\ UNCHANGED <<search_urls, delay_s, pageIdx, listing_urls, collectLog>>
    /\ UNCHANGED fetchVars
    /\ UNCHANGED parseVars
    /\ UNCHANGED scrapeVars
    /\ UNCHANGED clientVars

NextCollect ==
    \/ CollectNextPage
    \/ \E out \in CollectOutcomes : CollectFetchAttempt(out)
    \/ CollectPage
    \/ CollectReturn

SpecCollect == InitCollect /\ [][NextCollect]_vars

(***************************************************************************)
(* Claims about collect_listing_urls (checked under SpecCollect)           *)
(***************************************************************************)
\* The fetches that have ended, in the order they ended.
FetchesEnded == SelectSeq(collectLog, LAMBDA e : e.kind = "fetch")

RECURSIVE ConcatLinks(_)
\* The extraction results of the pages that returned 200, concatenated.
ConcatLinks(fetches) ==
    IF fetches = <<>> THEN <<>>
    ELSE (IF Head(fetches).status = 200 THEN Head(fetches).links ELSE <<>>)
            \o ConcatLinks(Tail(fetches))

\* The position of the first occurrence of v in seq.
FirstIndex(seq, v) == CHOOSE i \in 1..Len(seq) : seq[i] = v /\ \A j \in 1..(i - 1) : seq[j] # v

\* C9: the returned list holds no URL twice, holds exactly the URLs
\* extracted from the pages that returned 200, and orders them by their
\* first occurrence in the concatenation of the per-page extraction results.
C9_DedupedInFirstSeenOrder ==
    collectPc = "done" =>
        LET cat == ConcatLinks(FetchesEnded)
        IN  /\ \A i, j \in 1..Len(collected) : i # j => collected[i] # collected[j]
            /\ Range(collected) = Range(cat)
            /\ \A i, j \in 1..Len(collected) :
                   i < j => FirstIndex(cat, collected[i]) < FirstIndex(cat, collected[j])

C9_Witness ==
    /\ collectPc = "done"
    /\ Len(FetchesEnded) = 2
    /\ FetchesEnded[1].status = 200 /\ FetchesEnded[2].status = 200
    /\ FetchesEnded[1].links # FetchesEnded[2].links
    /\ Len(collected) = 4
    /\ Len(ConcatLinks(FetchesEnded)) = 5

\* C10: a page whose fetch ends with a status other than 200 adds no URL,
\* and the loop goes on: the pages are fetched one by one in the given
\* order, all of them by the time the list is returned.
C10_Non200SkippedLoopGoesOn ==
    /\ listing_urls = ConcatLinks(FetchesEnded)
    /\ \A i \in 1..Len(FetchesEnded) :
           FetchesEnded[i].page = i /\ FetchesEnded[i].url = search_urls[i]
    /\ collectPc = "done" => Len(FetchesEnded) = Len(search_urls)
    /\ collectPc = "done" =>
           \A v \in Range(collected) :
               \E i \in 1..Len(FetchesEnded) :
                   FetchesEnded[i].status = 200 /\ v \in Range(FetchesEnded[i].links)

C10_Witness ==
    /\ collectPc = "done"
    /\ Len(FetchesEnded) = 2
    /\ FetchesEnded[1].status = 429 /\ Len(FetchesEnded[1].links) = 3
    /\ FetchesEnded[2].status = 200 /\ Len(FetchesEnded[2].links) = 2
    /\ collected = FetchesEnded[2].links

\* The delays slept, in the order they were slept.
DelaysSlept == SelectSeq(collectLog, LAMBDA e : e.kind = "delay")

\* C11: with delay_s > 0 every search-page fetch is followed by one delay
\* sleep before the next fetch begins, whatever its status: the sleeps are
\* as many as the fetches and each fetch's entry is followed by its delay.
C11_DelayAfterEveryFetch ==
    delay_s # 0 =>
        /\ Len(DelaysSlept) = Len(FetchesEnded)
        /\ \A i \in 1..Len(collectLog) :
               collectLog[i].kind = "fetch"
                   => /\ i < Len(collectLog)
                      /\ collectLog[i + 1].kind = "delay"
                      /\ collectLog[i + 1].page = collectLog[i].page

(***************************************************************************)
(* build_search_urls and ScrapeClient.collect_listing_urls.  A template    *)
(* is the search URL of HOST; the model keeps what follows its path, as    *)
(* the pieces around the placeholder.  `given` is FALSE for None.          *)
(***************************************************************************)
PLACEHOLDER == "{page}"

Template(parts) == [given |-> TRUE, parts |-> parts]

MissingTemplate == [given |-> FALSE, parts |-> <<>>]

\* The text of the pieces, one after the other.
RECURSIVE JoinParts(_)
JoinParts(parts) ==
    IF parts = <<>> THEN "" ELSE Head(parts) \o JoinParts(Tail(parts))

\* `"{page}" in search_url_template`: line 13.
HasPlaceholder(t) == \E k \in 1..Len(t.parts) : t.parts[k] = PLACEHOLDER

\* `search_url_template.format(page=page)`: line 14.
FormatPage(t, page) ==
    JoinParts([k \in 1..Len(t.parts) |->
                  IF t.parts[k] = PLACEHOLDER THEN ToString(page) ELSE t.parts[k]])

\* The URL a template text stands for.
SearchUrl(text) == Url(HOST, <<"suche">>, text)

\* `raise ValueError(...)`: lines 12 and 16.
RaisesValueError == [raised |-> TRUE, urls |-> <<>>]

Returns(urls) == [raised |-> FALSE, urls |-> urls]

\* `not search_url_template`: line 11.
TemplateFalsy(t) == ~t.given \/ t.parts = <<>>

\* build_search_urls without the test of line 15.
BuildSearchUrlsAnyPages(t, n) ==
    IF TemplateFalsy(t) THEN RaisesValueError
    ELSE IF HasPlaceholder(t)
         THEN Returns([page \in 1..n |-> SearchUrl(FormatPage(t, page))])
         ELSE Returns(<<SearchUrl(JoinParts(t.parts))>>)

\* SourceBase.build_search_urls: lines 10-17 of sources/base.py.
build_search_urls(t, n) ==
    IF TemplateFalsy(t) THEN RaisesValueError
    ELSE IF HasPlaceholder(t)
         THEN Returns([page \in 1..n |-> SearchUrl(FormatPage(t, page))])
         ELSE IF n # 1 THEN RaisesValueError
              ELSE Returns(<<SearchUrl(JoinParts(t.parts))>>)

\* The templates the client is called with.
Templates ==
    { MissingTemplate, Template(<<>>), Template(<<"?q=haus">>),
      Template(<<"?page=", PLACEHOLDER>>),
      Template(<<"?p=", PLACEHOLDER, "&again=", PLACEHOLDER>>) }

InitClient ==
    /\ retries \in {0, 1}
    /\ fetch = FetchStart
    /\ outcomes = <<>>
    /\ sleeps = <<>>
    /\ IdleParse
    /\ search_urls = <<>>
    /\ delay_s \in {0, 1}
    /\ pageIdx = 0
    /\ listing_urls = <<>>
    /\ collectPc = "idle"
    /\ collected = <<>>
    /\ collectLog = <<>>
    /\ IdleScrape
    /\ search_url_template \in Templates
    /\ pages \in 0..MaxPages
    /\ clientPc = "build"

\* `search_urls = self.source.build_search_urls(...)`, and on its return
\* the call of collect_listing_urls begins: client.py lines 92-93.
ClientBuild ==
    /\ clientPc = "build"
    /\ LET built == build_search_urls(search_url_template, pages)
       IN  IF built.raised
           THEN /\ clientPc' = "raised"
                /\ UNCHANGED <<search_urls, pageIdx, collectPc>>
           ELSE /\ clientPc' = "collect"
                /\ search_urls' = built.urls
                /\ pageIdx' = 1
                /\ collectPc' = "loop"
    /\ UNCHANGED <<delay_s, listing_urls, collected, collectLog>>
    /\ UNCHANGED <<search_url_template, pages>>
    /\ UNCHANGED fetchVars
    /\ UNCHANGED parseVars
    /\ UNCHANGED scrapeVars

\* collect_listing_urls has returned and the client returns its list:
\* client.py lines 93-100.
ClientReturn ==
    /\ clientPc = "collect"
    /\ collectPc = "done"
    /\ clientPc' = "done"
    /\ UNCHANGED <<search_url_template, pages>>
    /\ UNCHANGED fetchVars
    /\ UNCHANGED parseVars
    /\ UNCHANGED collectVars
    /\ UNCHANGED scrapeVars

NextClient ==
    \/ ClientBuild
    \/ CollectNextPage
    \/ \E out \in CollectOutcomes : CollectFetchAttempt(out)
    \/ CollectPage
    \/ CollectReturn
    \/ ClientReturn

SpecClient == InitClient /\ [][NextClient]_vars

(***************************************************************************)
(* Claims about build_search_urls (checked under SpecClient)               *)
(***************************************************************************)
\* No request has been made and none is under way.
NoFetchIssued ==
    /\ collectPc = "idle"
    /\ fetch = FetchStart
    /\ collectLog = <<>>

\* The template is empty or missing, or lacks the placeholder while more
\* than one page is asked for.
ConfigError ==
    \/ ~search_url_template.given
    \/ search_url_template.parts = <<>>
    \/ /\ PLACEHOLDER \notin Range(search_url_template.parts)
       /\ pages > 1

\* The text of the template with each placeholder replaced by the number.
RECURSIVE Substituted(_, _)
Substituted(parts, page) ==
    IF parts = <<>> THEN ""
    ELSE (IF Head(parts) = PLACEHOLDER THEN ToString(page) ELSE Head(parts))
             \o Substituted(Tail(parts), page)

\* C13: on a configuration error build_search_urls raises and no fetch is
\* ever issued; a template with the placeholder gives the URLs of pages
\* 1..N in order, exactly N of them; a template without it gives, for
\* pages = 1, the template itself.
C13_ConfigErrorFailsFast ==
    /\ ConfigError => clientPc \in {"build", "raised"} /\ NoFetchIssued
    /\ clientPc = "raised" => NoFetchIssued
    /\ (~ConfigError /\ clientPc # "build" /\ pages >= 1) =>
           /\ clientPc # "raised"
           /\ IF PLACEHOLDER \in Range(search_url_template.parts)
              THEN /\ Len(search_urls) = pages
                   /\ \A i \in 1..pages :
                          UrlString(search_urls[i]) =
                              UrlString(SearchUrl(""))
                                  \o Substituted(search_url_template.parts, i)
              ELSE /\ Len(search_urls) = 1
                   /\ UrlString(search_urls[1]) =
                          UrlString(SearchUrl(""))
                              \o Substituted(search_url_template.parts, 0)

\* A template without the placeholder and two pages: the call has raised.
C13_Witness ==
    /\ clientPc = "raised"
    /\ search_url_template = Template(<<"?q=haus">>)
    /\ pages = 2

(***************************************************************************)
(* scrape_listings: _scrape(url) on a ThreadPoolExecutor.  executor.map    *)
(* submits one call per URL; at most max_workers threads take the calls    *)
(* from the queue in submission order; the caller takes the results in     *)
(* submission order and stores each under its key.                         *)
(***************************************************************************)
\* The listing URL lists: distinct URLs, in one of two orders.
ListingUrlOrders ==
    { ListingUrlPool,
      [i \in 1..Len(ListingUrlPool) |->
          ListingUrlPool[((i + 1) % Len(ListingUrlPool)) + 1]] }

ListingUrlLists ==
    {SubSeq(order, 1, n) : order \in ListingUrlOrders, n \in 0..MaxListings}

\* A listing page as served.
ServedListing ==
    Document(<<DictBlock(LdOffer)>>, (PRICE :> "450.000 EUR"),
             (PRICE :> "450.000 EUR"), ("title" :> "Page Title"), <<>>)

\* What the transport does on a request for a listing page.
ScrapeOutcomes ==
    { Response(200, ServedListing), Response(404, PlainText("not found")),
      Raises("timeout") }

\* A call of _scrape that no thread has taken yet.
QueuedTask == [state |-> "queued", f |-> FetchStart, rec |-> EmptyDict, key |-> ""]

Running(ts) == {i \in 1..Len(ts) : ts[i].state \in {"fetching", "delaying"}}

\* The status of the first call, as a variable shared by the workers would
\* give it.
SharedStatus(ts, i) == ts[1].f.status

\* `status`, the local of _scrape: lines 106 and 111.
LocalStatus(ts, i) == ts[i].f.status

\* The key from the url alone.
RecordKeyUrl(rec, u) == UrlString(u)

\* `key = str(record.get("id") or url)`: line 114.
RecordKey(rec, u) ==
    IF Truthy(DictGet(rec, "id")) THEN rec["id"] ELSE UrlString(u)

InitScrape ==
    /\ retries \in {0, 1}
    /\ fetch = FetchStart
    /\ outcomes = <<>>
    /\ sleeps = <<>>
    /\ html = PlainText("")
    /\ url = Url("", <<>>, "")
    /\ hasJustHTML = TRUE
    /\ record = EmptyDict
    /\ layer = "idle"
    /\ search_urls = <<>>
    /\ delay_s \in {0, 1}
    /\ pageIdx = 0
    /\ listing_urls = <<>>
    /\ collectPc = "idle"
    /\ collected = <<>>
    /\ collectLog = <<>>
    /\ scrape_urls \in ListingUrlLists
    /\ max_workers \in 1..MaxWorkers
    /\ tasks = [i \in 1..Len(scrape_urls) |-> QueuedTask]
    /\ results = EmptyDict
    /\ nextResult = 1
    /\ scrapePc = "running"
    /\ IdleClient

\* A pool that starts a thread for every call submitted.
PoolAlwaysHasFreeThread(ts, mw) == TRUE

\* `ThreadPoolExecutor(max_workers=max_workers)`: a thread is free while
\* fewer than max_workers calls are running.  Line 117.
PoolHasFreeThread(ts, mw) == Cardinality(Running(ts)) < mw

\* A free thread takes the next call from the queue: line 105.
ScrapeStart(i) ==
    /\ scrapePc = "running"
    /\ tasks[i].state = "queued"
    /\ \A j \in 1..(i - 1) : tasks[j].state # "queued"
    /\ PoolHasFreeThread(tasks, max_workers)
    /\ tasks' = [tasks EXCEPT ![i].state = "fetching"]
    /\ UNCHANGED <<scrape_urls, max_workers, results, nextResult, scrapePc>>
    /\ UNCHANGED <<fetchVars, parseVars, collectVars, clientVars>>

\* One attempt of the call's fetch_html: line 106.
ScrapeFetchAttempt(i, out) ==
    /\ tasks[i].state = "fetching"
    /\ ~tasks[i].f.done
    /\ tasks' = [tasks EXCEPT ![i].f = FetchAttempt(@, retries, out)]
    /\ UNCHANGED <<scrape_urls, max_workers, results, nextResult, scrapePc>>
    /\ UNCHANGED <<fetchVars, parseVars, collectVars, clientVars>>

\* fetch_html has returned: lines 110-113, and 114-115 when there is no
\* delay to sleep.
ScrapeParse(i) ==
    /\ tasks[i].state = "fetching"
    /\ tasks[i].f.done
    /\ LET parsed == parse_listing(tasks[i].f.text, scrape_urls[i], hasJustHTML)
           rec == DictUpdate(parsed, "status_code" :> LocalStatus(tasks, i))
       IN  tasks' = [tasks EXCEPT
                        ![i].rec = rec,
                        ![i].state = IF delay_s # 0 THEN "delaying" ELSE "done",
                        ![i].key = IF delay_s # 0 THEN ""
                                   ELSE RecordKey(rec, scrape_urls[i])]
    /\ UNCHANGED <<scrape_urls, max_workers, results, nextResult, scrapePc>>
    /\ UNCHANGED <<fetchVars, parseVars, collectVars, clientVars>>

\* time.sleep(delay_s) is over: lines 113-115.
ScrapeDelayEnd(i) ==
    /\ tasks[i].state = "delaying"
    /\ tasks' = [tasks EXCEPT ![i].state = "done",
                              ![i].key = RecordKey(tasks[i].rec, scrape_urls[i])]
    /\ UNCHANGED <<scrape_urls, max_workers, results, nextResult, scrapePc>>
    /\ UNCHANGED <<fetchVars, parseVars, collectVars, clientVars>>

\* executor.map yields the next result: lines 118-119.
ScrapeStore ==
    /\ scrapePc = "running"
    /\ nextResult <= Len(tasks)
    /\ tasks[nextResult].state = "done"
    /\ results' = DictUpdate(results, tasks[nextResult].key :> tasks[nextResult].rec)
    /\ nextResult' = nextResult + 1
    /\ UNCHANGED <<scrape_urls, max_workers, tasks, scrapePc>>
    /\ UNCHANGED <<fetchVars, parseVars, collectVars, clientVars>>

\* The results are used up and the pool is shut down: lines 117-120.
ScrapeReturn ==
    /\ scrapePc = "running"
    /\ nextResult > Len(tasks)
    /\ scrapePc' = "done"
    /\ UNCHANGED <<scrape_urls, max_workers, tasks, results, nextResult>>
    /\ UNCHANGED <<fetchVars, parseVars, collectVars, clientVars>>

NextScrape ==
    \/ \E i \in 1..Len(tasks) : ScrapeStart(i)
    \/ \E i \in 1..Len(tasks), out \in ScrapeOutcomes : ScrapeFetchAttempt(i, out)
    \/ \E i \in 1..Len(tasks) : ScrapeParse(i)
    \/ \E i \in 1..Len(tasks) : ScrapeDelayEnd(i)
    \/ ScrapeStore
    \/ ScrapeReturn

SpecScrape == InitScrape /\ [][NextScrape]_vars

(***************************************************************************)
(* Claims about scrape_listings (checked under SpecScrape)                 *)
(***************************************************************************)
\* C7: the returned mapping has exactly one entry per input URL, each under
\* that listing's id or URL; no record is lost or replaced by another's.
C7_OneEntryPerUrl ==
    scrapePc = "done" =>
        /\ Cardinality(DOMAIN results) = Len(scrape_urls)
        /\ \A i \in 1..Len(scrape_urls) :
               \E k \in DOMAIN results :
                   /\ results[k]["url"] = UrlString(scrape_urls[i])
                   /\ k \in {_extract_listing_id(scrape_urls[i]),
                             UrlString(scrape_urls[i])}

\* C8: every stored record has a status_code, and it is the status that the
\* fetch of the record's own url returned.
C8_StatusOfOwnFetch ==
    \A k \in DOMAIN results :
        /\ "status_code" \in DOMAIN results[k]
        /\ \A i \in 1..Len(scrape_urls) :
               results[k]["url"] = UrlString(scrape_urls[i])
                   => /\ tasks[i].f.done
                      /\ results[k]["status_code"] = tasks[i].f.status

C8_Witness ==
    /\ scrapePc = "done"
    /\ Len(scrape_urls) = 3 /\ max_workers = 2
    /\ Cardinality(DOMAIN results) = 3
    /\ \E k1, k2, k3 \in DOMAIN results :
           /\ results[k1]["status_code"] = 200
           /\ results[k2]["status_code"] = 404
           /\ results[k3]["status_code"] = 0

\* The record of a listing none of whose attempts got a response: the
\* url-derived fields and status_code 0.
FailedRecord(u) == DictUpdate(NewRecord(u), "status_code" :> 0)

\* The returned mapping has a record of the listing at position i.
Returned(i) ==
    \E k \in DOMAIN results : results[k]["url"] = UrlString(scrape_urls[i])

\* Some thread, or the caller, has a step to take: a call is running, a
\* queued call has a free thread, or the caller's next result is there.
ScrapeCanStep ==
    \/ Running(tasks) # {}
    \/ /\ \E i \in 1..Len(tasks) : tasks[i].state = "queued"
       /\ Cardinality(Running(tasks)) < max_workers
    \/ nextResult <= Len(tasks) /\ tasks[nextResult].state = "done"
    \/ nextResult > Len(tasks)

\* C12: scrape_listings never gets stuck before it returns, and what it
\* returns has, for every listing, a record: the url-derived fields with
\* status_code 0 for a listing whose every attempt failed, the response's
\* status for a listing answered with an error status, and the other
\* listings' records next to them.
C12_FailuresStillYieldRecords ==
    /\ scrapePc # "done" => ScrapeCanStep
    /\ scrapePc = "done" =>
           \A i \in 1..Len(scrape_urls) :
               /\ Returned(i)
               /\ tasks[i].f.status = 0
                      => \E k \in DOMAIN results :
                             results[k] = FailedRecord(scrape_urls[i])
               /\ tasks[i].f.status = 404
                      => \E k \in DOMAIN results :
                             /\ results[k]["url"] = UrlString(scrape_urls[i])
                             /\ results[k]["status_code"] = 404

\* C15: at most max_workers calls of _scrape are in progress at any time;
\* whatever the running calls are blocked in, a queued call is taken as
\* soon as fewer than max_workers calls are running; and the mapping is
\* returned only when every call has finished and its record is stored.
C15_AtMostMaxWorkersInProgress ==
    /\ Cardinality(Running(tasks)) <= max_workers
    /\ ( /\ scrapePc = "running"
         /\ \E i \in 1..Len(tasks) : tasks[i].state = "queued"
         /\ Cardinality(Running(tasks)) < max_workers )
           => ENABLED (\E i \in 1..Len(tasks) : ScrapeStart(i))
    /\ scrapePc = "done" =>
           /\ \A i \in 1..Len(tasks) : tasks[i].state = "done"
           /\ nextResult = Len(tasks) + 1

\* The first call is still in its fetch after a failed attempt; the other
\* worker has finished the second call and is in the delay of the third.
C15_Witness ==
    /\ Len(tasks) = 3 /\ max_workers = 2
    /\ tasks[1].state = "fetching" /\ tasks[1].f.attempt = 1 /\ ~tasks[1].f.done
    /\ tasks[2].state = "done"
    /\ tasks[3].state = "delaying"
    /\ Cardinality(Running(tasks)) = max_workers

====
